---------------------------- MODULE Spec2Model ----------------------------
(***************************************************************************)
(* A model of the expense ledger service of src/main.py: the SQLite schema *)
(* bootstrap init_db, the three tools add_expense, list_expenses and       *)
(* summarize, and the categories resource.                                 *)
(*                                                                         *)
(* Text is modelled as a tuple of one-character strings, so that SQLite's  *)
(* BINARY collation (date BETWEEN ? AND ?) and its REAL column affinity    *)
(* (text that is a well-formed numeric literal becomes a number, any other *)
(* text is stored as text) are computed character by character.  Numbers   *)
(* are fixed-point, in hundredths: 12.5 is 1250.                           *)
(***************************************************************************)
EXTENDS Integers, Sequences, FiniteSets, TLC

VARIABLES
    schema,     \* TRUE once the table expenses exists in the database file
    table,      \* the committed rows of expenses
    seq,        \* sqlite_sequence of expenses: the largest id ever committed
    writer,     \* the process holding SQLite's write lock, or NoProc
    txn,        \* the writer's uncommitted view: [rows, seq]
    pc,         \* per process: where it is in init_db, or serving, or down
    last,       \* the call that completed last: its arguments and its result
    issued,     \* history: every id a committed INSERT was given
    sentinels,  \* history: the ids given to rows the init_db write test wrote
    catFile,    \* the file at CATEGORIES_PATH
    catLast     \* what the categories resource returned last

dbVars  == <<schema, table, seq, writer, txn, pc, last, issued, sentinels>>
catVars == <<catFile, catLast>>
vars    == <<schema, table, seq, writer, txn, pc, last, issued, sentinels,
             catFile, catLast>>

---------------------------------------------------------------------------
(* Bounds of the model. *)

\* ids the database hands out before the model stops inserting
MaxSeq == 3

Procs  == {"p1", "p2"}
NoProc == "none"

---------------------------------------------------------------------------
(* Text and SQL values. *)

\* The characters dates and amounts are written with, in code point order.
Alphabet ==
    <<"+", "-", ".", "0", "1", "2", "3", "4", "5", "6", "7", "8", "9",
      "a", "b", "c">>

Digits == <<"0", "1", "2", "3", "4", "5", "6", "7", "8", "9">>

Ord(ch) == CHOOSE i \in 1..Len(Alphabet) : Alphabet[i] = ch

IsDigit(ch) == \E i \in 1..Len(Digits) : Digits[i] = ch

DigitVal(ch) == (CHOOSE i \in 1..Len(Digits) : Digits[i] = ch) - 1

\* memcmp order of two texts (SQLite's BINARY collation): s <= t
RECURSIVE LexLeq(_, _)
LexLeq(s, t) ==
    IF s = <<>> THEN TRUE
    ELSE IF t = <<>> THEN FALSE
    ELSE IF Head(s) = Head(t) THEN LexLeq(Tail(s), Tail(t))
    ELSE Ord(Head(s)) < Ord(Head(t))

Null    == [t |-> "null", s |-> <<>>, c |-> 0]
Text(s) == [t |-> "text", s |-> s, c |-> 0]
\* a Python int n
Whole(n) == [t |-> "int",  s |-> <<>>, c |-> n]
\* a floating-point value of c hundredths
Real(c) == [t |-> "real", s |-> <<>>, c |-> c]

\* Python truthiness of an argument: neither None nor the empty string
Truthy(v) == v.t # "null" /\ ~(v.t = "text" /\ v.s = <<>>)

---------------------------------------------------------------------------
(* SQLite's column affinities and numeric conversion. *)

RECURSIVE TakeDigits(_, _, _)
TakeDigits(s, acc, n) ==
    IF s # <<>> /\ IsDigit(Head(s))
    THEN TakeDigits(Tail(s), acc * 10 + DigitVal(Head(s)), n + 1)
    ELSE [val |-> acc, count |-> n, rest |-> s]

\* SQLite's text-to-real conversion: the value (in hundredths) of the longest
\* prefix of s that is a numeric literal, and whether that prefix is all of s.
\* Exponents and white space are not in the alphabet; fraction digits past
\* the second are dropped.
AtoF(s) ==
    LET neg    == s # <<>> /\ Head(s) = "-"
        s1     == IF s # <<>> /\ Head(s) \in {"+", "-"} THEN Tail(s) ELSE s
        ip     == TakeDigits(s1, 0, 0)
        hasDot == ip.rest # <<>> /\ Head(ip.rest) = "."
        fp     == IF hasDot THEN TakeDigits(Tail(ip.rest), 0, 0)
                  ELSE [val |-> 0, count |-> 0, rest |-> ip.rest]
        frac   == CASE fp.count = 0 -> 0
                    [] fp.count = 1 -> fp.val * 10
                    [] fp.count = 2 -> fp.val
                    [] OTHER        -> fp.val \div (10 ^ (fp.count - 2))
        mag    == ip.val * 100 + frac
        any    == ip.count + fp.count > 0
    IN  [whole |-> any /\ fp.rest = <<>>,
         val   |-> IF ~any THEN 0 ELSE IF neg THEN 0 - mag ELSE mag]

\* amount REAL: a number is stored as a float; text that is a well-formed
\* numeric literal is converted; any other text is stored as it is.
RealAffinity(v) ==
    CASE v.t = "int"  -> Real(v.c * 100)
      [] v.t = "text" -> IF AtoF(v.s).whole THEN Real(AtoF(v.s).val) ELSE v
      [] OTHER        -> v

\* date, category, subcategory, note TEXT: text and NULL are stored as they are.
TextAffinity(v) == v

\* What SUM() adds for a stored amount: a float, or a text's numeric prefix.
SumOperand(v) ==
    CASE v.t = "real" -> v.c
      [] v.t = "text" -> AtoF(v.s).val
      [] OTHER        -> 0

---------------------------------------------------------------------------
(* The values the calls are made with. *)

D1          == <<"2", "0", "2", "4", "-", "0", "1", "-", "0", "1">>
D2          == <<"2", "0", "2", "4", "-", "0", "1", "-", "0", "2">>
\* a bound shorter than a date and below every 2024 date
Y2024       == <<"2", "0", "2", "4">>
\* a bound shorter than D1 and D2 and above both
D1x         == <<"2", "0", "2", "4", "-", "0", "1", "-", "1">>
Food        == <<"F", "o", "o", "d">>
Travel      == <<"T", "r", "a", "v", "e", "l">>
Other       == <<"O", "t", "h", "e", "r">>
Cafe        == <<"c", "a", "f", "e">>
Lunch       == <<"l", "u", "n", "c", "h">>
Abc         == <<"a", "b", "c">>
T1250       == <<"1", "2", ".", "5", "0">>

\* 'test' and '2000-01-01', the literals of the write test (main.py:41-42)
TestCat      == <<"t", "e", "s", "t">>
SentinelDate == <<"2", "0", "0", "0", "-", "0", "1", "-", "0", "1">>

Args(d, a, c, sub, n) ==
    [date |-> d, amount |-> a, category |-> c, subcategory |-> sub, note |-> n,
     start_date |-> Null, end_date |-> Null]

QueryArgs(s, e, c) ==
    [date |-> Null, amount |-> Null, category |-> c, subcategory |-> Null,
     note |-> Null, start_date |-> s, end_date |-> e]

NoArgs == QueryArgs(Null, Null, Null)

\* The add_expense calls of the model.  subcategory and note are "" when
\* the caller leaves them out (main.py:61).
AddInputs ==
    { Args(Text(D1), Whole(5),    Text(Food),    Text(<<>>), Text(<<>>)),
      Args(Text(D1), Whole(10),   Text(Food),    Text(Cafe), Text(Lunch)),
      Args(Text(D2), Text(T1250), Text(Food),    Text(<<>>), Text(Lunch)),
      Args(Text(D2), Whole(20),   Text(Travel),  Text(<<>>), Text(<<>>)),
      Args(Text(D1), Text(Abc),   Text(Food),    Text(<<>>), Text(<<>>)),
      Args(Text(D2), Whole(5),    Text(TestCat), Text(<<>>), Text(<<>>)),
      Args(Null,     Whole(5),    Text(Food),    Text(<<>>), Text(<<>>)),
      Args(Text(D1), Null,        Text(Food),    Text(<<>>), Text(<<>>)),
      Args(Text(D2), Whole(5),    Null,          Text(<<>>), Text(<<>>)) }

\* What can go wrong in the store during a call, besides the call's own data:
\* "connect" (the file cannot be opened), "commit" (the commit fails).
AddCalls ==
    { [args |-> a, fault |-> "none"] : a \in AddInputs }
    \cup { [args |-> Args(Text(D1), Whole(5), Text(Food), Text(<<>>), Text(<<>>)),
            fault |-> f] : f \in {"connect", "commit"} }

\* The date ranges asked for: everything, one day, two days, a reversed
\* range, a range with a short upper bound.
Ranges ==
    { <<Text(Y2024), Text(D1x)>>, <<Text(D1), Text(D1)>>,
      <<Text(D1), Text(D2)>>, <<Text(D2), Text(D1)>>,
      <<Text(D2), Text(D1x)>> }

Filters == {Null, Text(<<>>), Text(Food), Text(Other)}

ListCalls ==
    { [args |-> QueryArgs(r[1], r[2], Null), fault |-> "none"] : r \in Ranges }
    \cup { [args |-> QueryArgs(Text(D1), Text(D2), Null), fault |-> "connect"] }

SummarizeCalls ==
    { [args |-> QueryArgs(r[1], r[2], c), fault |-> "none"] :
        r \in Ranges \ {<<Text(D1), Text(D1)>>, <<Text(D1), Text(D2)>>},
        c \in Filters }
    \cup { [args |-> QueryArgs(Text(D1), Text(D2), Null), fault |-> "connect"] }

InitFaults == {"none", "connect"}

---------------------------------------------------------------------------
(* The SQL statements. *)

Row(i, d, a, c, sub, n) ==
    [id |-> i, date |-> d, amount |-> a, category |-> c, subcategory |-> sub,
     note |-> n]

MaxOf(S) == IF S = {} THEN 0 ELSE CHOOSE m \in S : \A x \in S : x <= m

\* id INTEGER PRIMARY KEY without AUTOINCREMENT: one more than the largest rowid in the table
NextIdRowid(rows, sq) == MaxOf({r.id : r \in rows}) + 1

\* id INTEGER PRIMARY KEY AUTOINCREMENT: one more than the largest rowid the
\* table has ever held, which sqlite_sequence records
NextId(rows, sq) == MaxOf({sq} \cup {r.id : r \in rows}) + 1

\* INSERT INTO expenses(date, amount, category, subcategory, note)
\* VALUES (?,?,?,?,?) on the view [rows, seq]: the NOT NULL constraints, the
\* column affinities, the assigned id.
Insert(view, a) ==
    LET i   == NextId(view.rows, view.seq)
        row == Row(i, TextAffinity(a.date), RealAffinity(a.amount),
                   TextAffinity(a.category), TextAffinity(a.subcategory),
                   TextAffinity(a.note))
        exc == CASE a.date.t = "null" ->
                        "NOT NULL constraint failed: expenses.date"
                 [] a.amount.t = "null" ->
                        "NOT NULL constraint failed: expenses.amount"
                 [] a.category.t = "null" ->
                        "NOT NULL constraint failed: expenses.category"
                 [] OTHER -> ""
    IN  IF exc # "" THEN [exc |-> exc, rows |-> view.rows, seq |-> view.seq, id |-> 0]
        ELSE [exc |-> "", rows |-> view.rows \cup {row}, seq |-> i, id |-> i]

\* INSERT OR IGNORE INTO expenses(date, amount, category)
\* VALUES ('2000-01-01', 0, 'test'); subcategory and note take their defaults.
InsertSentinel(view) ==
    Insert(view, Args(Text(SentinelDate), Whole(0), Text(TestCat),
                      Text(<<>>), Text(<<>>)))

\* The write test keeping its row
DeleteNothing(rows) == rows

\* DELETE FROM expenses WHERE category = 'test'
DeleteTest(rows) == {r \in rows : r.category # Text(TestCat)}

\* date BETWEEN ? AND ?: lo <= date AND date <= hi, compared as text
Between(d, lo, hi) ==
    /\ lo.t = "text" /\ hi.t = "text" /\ d.t = "text"
    /\ LexLeq(lo.s, d.s)
    /\ LexLeq(d.s, hi.s)

\* ORDER BY date DESC, id: equal dates by ascending id
ListBeforeAsc(r, o) ==
    \/ (r.date.s # o.date.s /\ LexLeq(o.date.s, r.date.s))
    \/ (r.date.s = o.date.s /\ r.id < o.id)

\* ORDER BY date DESC, id DESC: r comes before o
ListBefore(r, o) ==
    \/ (r.date.s # o.date.s /\ LexLeq(o.date.s, r.date.s))
    \/ (r.date.s = o.date.s /\ r.id > o.id)

RECURSIVE OrderRows(_)
OrderRows(S) ==
    IF S = {} THEN <<>>
    ELSE LET first == CHOOSE r \in S : \A o \in S \ {r} : ListBefore(r, o)
         IN  <<first>> \o OrderRows(S \ {first})

\* SELECT id, date, amount, category, subcategory, note FROM expenses
\* WHERE date BETWEEN ? AND ? ORDER BY date DESC, id DESC
SelectRange(rows, lo, hi) ==
    OrderRows({r \in rows : Between(r.date, lo, hi)})

RECURSIVE SumAmounts(_)
SumAmounts(S) ==
    IF S = {} THEN 0
    ELSE LET r == CHOOSE x \in S : TRUE
         IN  SumOperand(r.amount) + SumAmounts(S \ {r})

\* SELECT category, SUM(amount) AS total_amount, COUNT(*) as count ...
\* GROUP BY category: one entry per category among the selected rows
GroupByCategory(S) ==
    { [category     |-> c,
       total_amount |-> SumAmounts({r \in S : r.category = c}),
       count        |-> Cardinality({r \in S : r.category = c})]
      : c \in {r.category : r \in S} }

RECURSIVE Orderings(_)
Orderings(S) ==
    IF S = {} THEN {<<>>}
    ELSE UNION { { <<e>> \o rest : rest \in Orderings(S \ {e}) } : e \in S }

\* ORDER BY total_amount DESC: every order of the entries in which the totals
\* do not increase (SQL leaves the order of equal totals open)
SortedByTotal(E) ==
    { q \in Orderings(E) :
        \A i \in 1..(Len(q) - 1) : q[i].total_amount >= q[i + 1].total_amount }

\* The rows summarize's WHERE clause selects (main.py:114-123): the category
\* condition is appended only for a truthy category argument.
SummarizeWhere(rows, lo, hi, cat) ==
    { r \in rows : /\ Between(r.date, lo, hi)
                   /\ (Truthy(cat) => r.category = cat) }

---------------------------------------------------------------------------
(* What a call gives back. *)

NoMessage == [prefix |-> "", exc |-> "", values |-> {}]

\* {"status": "success", "id": cur.lastrowid, "message": ...}
Success(i) ==
    [status |-> "success", id |-> i, rows |-> <<>>, groups |-> <<>>,
     message |-> [prefix |-> "Expense added successfully", exc |-> "",
                  values |-> {}]]

\* [dict(zip(cols, row)) for row in rows] of list_expenses
RowsResult(q) ==
    [status |-> "rows", id |-> 0, rows |-> q, groups |-> <<>>,
     message |-> NoMessage]

\* [dict(zip(cols, r)) for r in rows] of summarize
GroupsResult(q) ==
    [status |-> "groups", id |-> 0, rows |-> <<>>, groups |-> q,
     message |-> NoMessage]

\* the exception leaves the function
Raised(prefix, exc) ==
    [status |-> "raised", id |-> 0, rows |-> <<>>, groups |-> <<>>,
     message |-> [prefix |-> "", exc |-> exc, values |-> {}]]

\* a handler without its except clause
Uncaught(prefix, exc) == Raised(prefix, exc)

\* except Exception as e: return {"status": "error", "message": f"...: {e}"}
\* The message interpolates the exception alone, none of the arguments.
Caught(prefix, exc) ==
    [status |-> "error", id |-> 0, rows |-> <<>>, groups |-> <<>>,
     message |-> [prefix |-> prefix, exc |-> exc, values |-> {}]]

Progress(step) ==
    [status |-> step, id |-> 0, rows |-> <<>>, groups |-> <<>>,
     message |-> NoMessage]

Call(op, a, fault, res) ==
    [op |-> op, args |-> a, fault |-> fault, result |-> res]

NoTxn == [rows |-> {}, seq |-> 0]

CannotOpen == "unable to open database file"
Locked     == "database is locked"
CommitFail == "disk I/O error"

---------------------------------------------------------------------------
(* The database: bootstrap and tools. *)

DbInit ==
    /\ schema = FALSE
    /\ table = {}
    /\ seq = 0
    /\ writer = NoProc
    /\ txn = NoTxn
    /\ pc = [p \in Procs |-> "down"]
    /\ last = Call("none", NoArgs, "none", Progress("none"))
    /\ issued = {}
    /\ sentinels = {}

\* init_db, lines 26-38: connect, PRAGMA journal_mode=WAL,
\* CREATE TABLE IF NOT EXISTS.  A failure is printed and raised again, which
\* ends the starting process.
InitCreate(p) ==
    /\ pc[p] = "down"
    /\ \E fault \in InitFaults :
         IF fault = "connect"
         THEN /\ last' = Call("init_db", NoArgs, fault, Raised("", CannotOpen))
              /\ UNCHANGED <<schema, pc>>
         ELSE /\ schema' = TRUE
              /\ pc' = [pc EXCEPT ![p] = "created"]
              /\ last' = Call("init_db", NoArgs, fault, Progress("created"))
    /\ UNCHANGED <<table, seq, writer, txn, issued, sentinels, catVars>>

\* init_db, line 41: the INSERT opens the connection's transaction and takes
\* the write lock; when another connection holds it the statement fails with
\* "database is locked" once the busy timeout has passed.
InitInsert(p) ==
    /\ pc[p] = "created"
    /\ seq < MaxSeq
    /\ IF writer # NoProc
       THEN /\ pc' = [pc EXCEPT ![p] = "down"]
            /\ last' = Call("init_db", NoArgs, "none", Raised("", Locked))
            /\ UNCHANGED <<writer, txn>>
       ELSE LET ins == InsertSentinel([rows |-> table, seq |-> seq])
            IN  /\ writer' = p
                /\ txn' = [rows |-> ins.rows, seq |-> ins.seq]
                /\ pc' = [pc EXCEPT ![p] = "inserted"]
                /\ last' = Call("init_db", NoArgs, "none", Progress("inserted"))
    /\ UNCHANGED <<schema, table, seq, issued, sentinels, catVars>>

\* init_db, line 42, inside the transaction the INSERT opened
InitDelete(p) ==
    /\ pc[p] = "inserted"
    /\ writer = p
    /\ txn' = [txn EXCEPT !.rows = DeleteTest(txn.rows)]
    /\ pc' = [pc EXCEPT ![p] = "deleted"]
    /\ last' = Call("init_db", NoArgs, "none", Progress("deleted"))
    /\ UNCHANGED <<schema, table, seq, writer, issued, sentinels, catVars>>

\* init_db, leaving the with block (line 26): the transaction commits and the
\* lock is released; the module goes on to serve (lines 50-55).
InitCommit(p) ==
    /\ pc[p] = "deleted"
    /\ writer = p
    /\ table' = txn.rows
    /\ seq' = txn.seq
    /\ issued' = issued \cup {txn.seq}
    /\ sentinels' = sentinels \cup {txn.seq}
    /\ writer' = NoProc
    /\ txn' = NoTxn
    /\ pc' = [pc EXCEPT ![p] = "serving"]
    /\ last' = Call("init_db", NoArgs, "none", Progress("serving"))
    /\ UNCHANGED <<schema, catVars>>

\* The server process ends; starting it again runs init_db again (line 50).
Restart(p) ==
    /\ pc[p] = "serving"
    /\ pc' = [pc EXCEPT ![p] = "down"]
    /\ UNCHANGED <<schema, table, seq, writer, txn, last, issued, sentinels,
                   catVars>>

\* The try block of add_expense (lines 66-76) on the committed database:
\* connect, INSERT, commit.  A failure before the commit has ended leaves the
\* database as it was (the connection is closed without a commit).
AddOutcome(a, fault) ==
    LET same == [exc |-> "", rows |-> table, seq |-> seq, id |-> 0]
        ins  == Insert([rows |-> table, seq |-> seq], a)
    IN  CASE fault = "connect" -> [same EXCEPT !.exc = CannotOpen]
          [] writer # NoProc   -> [same EXCEPT !.exc = Locked]
          [] ins.exc # ""      -> ins
          [] fault = "commit"  -> [same EXCEPT !.exc = CommitFail]
          [] OTHER             -> ins

add_expense(p) ==
    /\ pc[p] = "serving"
    /\ seq < MaxSeq
    /\ \E c \in AddCalls :
         LET out == AddOutcome(c.args, c.fault)
         IN  /\ table' = out.rows
             /\ seq' = out.seq
             /\ issued' = IF out.exc = "" THEN issued \cup {out.id} ELSE issued
             /\ last' = Call("add_expense", c.args, c.fault,
                             IF out.exc = "" THEN Success(out.id)
                             ELSE Caught("DB Error: ", out.exc))
    /\ UNCHANGED <<schema, writer, txn, pc, sentinels, catVars>>

\* list_expenses (lines 89-103).  In WAL mode a reader is not blocked by the
\* writer: it reads the committed rows.
list_expenses(p) ==
    /\ pc[p] = "serving"
    /\ \E c \in ListCalls :
         last' = Call("list_expenses", c.args, c.fault,
                      IF c.fault = "connect" THEN Caught("Error: ", CannotOpen)
                      ELSE RowsResult(SelectRange(table, c.args.start_date,
                                                  c.args.end_date)))
    /\ UNCHANGED <<schema, table, seq, writer, txn, pc, issued, sentinels,
                   catVars>>

\* summarize (lines 113-134)
summarize(p) ==
    /\ pc[p] = "serving"
    /\ \E c \in SummarizeCalls :
         IF c.fault = "connect"
         THEN last' = Call("summarize", c.args, c.fault,
                           Caught("Error: ", CannotOpen))
         ELSE \E q \in SortedByTotal(GroupByCategory(
                         SummarizeWhere(table, c.args.start_date,
                                        c.args.end_date, c.args.category))) :
                last' = Call("summarize", c.args, c.fault, GroupsResult(q))
    /\ UNCHANGED <<schema, table, seq, writer, txn, pc, issued, sentinels,
                   catVars>>

---------------------------------------------------------------------------
(* The categories resource. *)

\* default_categories (lines 144-157)
DefaultCategories ==
    <<"Food & Dining", "Transportation", "Shopping", "Entertainment",
      "Bills & Utilities", "Healthcare", "Travel", "Education", "Business",
      "Other">>

\* A text, as far as a reader of the resource can tell texts apart: the JSON
\* document {"categories": [...]}, the JSON document {"error": "..."}, or a
\* text that is not JSON at all.
JsonCategories(list) ==
    [form |-> "json", key |-> "categories", categories |-> list, text |-> ""]
JsonErrorBody(exc) ==
    [form |-> "json", key |-> "error", categories |-> <<>>,
     text |-> "Could not load categories: " \o exc]
NotJson(raw) ==
    [form |-> "not json", key |-> "", categories |-> <<>>, text |-> raw]

\* What the file at CATEGORIES_PATH may hold.
FileContents ==
    { JsonCategories(<<"Rent", "Food">>), JsonCategories(<<"Rent">>),
      JsonCategories(<<>>), NotJson("{\"categories\": ["), NotJson("") }

Absent    == [kind |-> "absent", readable |-> FALSE, utf8 |-> FALSE,
              content |-> NotJson("")]
Directory == [kind |-> "dir", readable |-> TRUE, utf8 |-> FALSE,
              content |-> NotJson("")]
Files ==
    { [kind |-> "file", readable |-> r, utf8 |-> u, content |-> c] :
        r \in BOOLEAN, u \in BOOLEAN, c \in FileContents }

CatInit ==
    /\ catFile = Absent
    /\ catLast = [status |-> "none", body |-> NotJson(""), file |-> Absent]

\* Somebody outside the server writes, replaces or removes the override file.
EditCategoriesFile ==
    /\ catFile' \in ({Absent, Directory} \cup Files) \ {catFile}
    /\ UNCHANGED <<catLast, dbVars>>

\* categories() (lines 159-167).  vanish: the file is removed between
\* os.path.exists and open.
categories ==
    /\ \E vanish \in BOOLEAN :
         LET exc == CASE catFile.kind = "absent"  -> ""
                      [] catFile.kind = "dir"     -> "IsADirectoryError"
                      [] vanish                   -> "FileNotFoundError"
                      [] ~catFile.readable        -> "PermissionError"
                      [] ~catFile.utf8            -> "UnicodeDecodeError"
                      [] OTHER                    -> ""
             body == CASE exc # ""                -> JsonErrorBody(exc)
                       [] catFile.kind = "absent" -> JsonCategories(DefaultCategories)
                       [] OTHER                   -> catFile.content
         IN  /\ catLast' = [status |-> "returned", body |-> body,
                            file |-> catFile]
             /\ catFile' = IF vanish /\ catFile.kind = "file" THEN Absent
                           ELSE catFile
    /\ UNCHANGED dbVars

Init == DbInit /\ CatInit

Next ==
    \E p \in Procs :
        \/ InitCreate(p)
        \/ InitInsert(p)
        \/ InitDelete(p)
        \/ InitCommit(p)
        \/ Restart(p)
        \/ add_expense(p)
        \/ list_expenses(p)
        \/ summarize(p)

Spec == Init /\ [][Next]_vars

NextCat == EditCategoriesFile \/ categories

SpecCat == Init /\ [][NextCat]_vars

---------------------------------------------------------------------------
(* Vocabulary of the properties. *)

\* s <= t in lexicographic order: s is a prefix of t, or at the first place
\* where they differ s has the smaller character.
LexOrder(s, t) ==
    \E k \in 0..Len(s) :
        /\ k <= Len(t)
        /\ \A i \in 1..k : s[i] = t[i]
        /\ \/ k = Len(s)
           \/ (k < Len(t) /\ Ord(s[k + 1]) < Ord(t[k + 1]))

InRange(r, lo, hi) == LexOrder(lo.s, r.date.s) /\ LexOrder(r.date.s, hi.s)

Elements(q) == {q[i] : i \in 1..Len(q)}

RECURSIVE NumberSum(_)
NumberSum(S) ==
    IF S = {} THEN 0
    ELSE LET r == CHOOSE x \in S : TRUE IN r.amount.c + NumberSum(S \ {r})

\* a call of the named tool has just completed
Completed(op) == last' # last /\ last'.op = op

\* float(v) succeeds
Coercible(v) == v.t \in {"int", "real"} \/ (v.t = "text" /\ AtoF(v.s).whole)

InitRunning(p) == pc[p] \in {"created", "inserted", "deleted"}

\* the records summarize is to report on
Selected(a) ==
    { r \in table : /\ InRange(r, a.start_date, a.end_date)
                    /\ (a.category.t = "text" /\ a.category.s # <<>>
                          => r.category = a.category) }

---------------------------------------------------------------------------
(* The properties. *)

\* C1: init_db leaves existing data untouched: when a run of init_db
\* completes, the stored expense records are those stored before it, whatever
\* their categories.
C1_InitDbLeavesDataUntouched ==
    [][ \A p \in Procs :
          (pc[p] = "deleted" /\ pc'[p] = "serving") => table' = table ]_vars

\* C2: add_expense with an amount that float() rejects returns an error
\* result that references the offending value, and inserts no row.
C2_NonNumericAmountRejected ==
    [][ (Completed("add_expense") /\ last'.args.amount.t = "text"
           /\ ~Coercible(last'.args.amount))
        => /\ last'.result.status = "error"
           /\ last'.args.amount \in last'.result.message.values
           /\ table' = table ]_vars

\* C3: a successful add_expense returning id i adds exactly one record, with
\* id i, the supplied date, category, subcategory and note, and the amount as
\* a number ("12.50" as 12.5); the records stored before are unchanged; every
\* list_expenses over a range containing the date returns the record.
C3_AddAppendsOneRecord ==
    [][ (Completed("add_expense") /\ last'.result.status = "success")
        => \E r \in table' :
             /\ r \notin table
             /\ table' = table \cup {r}
             /\ r.id = last'.result.id
             /\ r.date = last'.args.date
             /\ r.category = last'.args.category
             /\ r.subcategory = last'.args.subcategory
             /\ r.note = last'.args.note
             /\ r.amount.t = "real"
             /\ (last'.args.amount.t = "int"
                   => r.amount.c = last'.args.amount.c * 100)
             /\ (last'.args.amount = Text(T1250) => r.amount.c = 1250)
             /\ \A g \in Ranges :
                  InRange(r, g[1], g[2])
                    => r \in Elements(SelectRange(table', g[1], g[2])) ]_vars

\* C4: list_expenses returns exactly the stored records whose date lies in
\* [start_date, end_date] in lexicographic order, each once, by date
\* descending and, for equal dates, by id descending; a reversed range gives
\* the empty sequence, not an error.
C4_ListRange ==
    (last.op = "list_expenses" /\ last.fault = "none")
    => LET q  == last.result.rows
           lo == last.args.start_date
           hi == last.args.end_date
       IN  /\ last.result.status = "rows"
           /\ Elements(q) = {r \in table : InRange(r, lo, hi)}
           /\ Len(q) = Cardinality(Elements(q))
           /\ \A i \in 1..(Len(q) - 1) :
                \/ (q[i].date # q[i + 1].date
                      /\ LexOrder(q[i + 1].date.s, q[i].date.s))
                \/ (q[i].date = q[i + 1].date /\ q[i].id > q[i + 1].id)
           /\ (~LexOrder(lo.s, hi.s) => q = <<>>)

C4_Witness ==
    /\ last.op = "list_expenses" /\ last.fault = "none"
    /\ Len(last.result.rows) = 2
    /\ last.result.rows[1].date = last.result.rows[2].date
    /\ last.result.rows[1].amount # last.result.rows[2].amount

\* C5: summarize returns one entry per category with a stored record in the
\* date interval (and equal to a non-empty filter), total_amount the sum of
\* those records' amounts and count their number, by total_amount descending;
\* no match or a reversed range gives the empty sequence.
C5_Summarize ==
    (last.op = "summarize" /\ last.fault = "none")
    => LET q   == last.result.groups
           sel == Selected(last.args)
       IN  /\ last.result.status = "groups"
           /\ {e.category : e \in Elements(q)} = {r.category : r \in sel}
           /\ Len(q) = Cardinality({r.category : r \in sel})
           /\ \A e \in Elements(q) :
                LET g == {r \in sel : r.category = e.category}
                IN  /\ \A r \in g : r.amount.t = "real"
                    /\ e.total_amount = NumberSum(g)
                    /\ e.count = Cardinality(g)
           /\ \A i \in 1..(Len(q) - 1) :
                q[i].total_amount >= q[i + 1].total_amount
           /\ (~LexOrder(last.args.start_date.s, last.args.end_date.s)
                 => q = <<>>)

\* summarize on selections whose amounts are all numbers: the entries, their
\* totals and counts and their order are those C5 describes.
SummarizeOfNumbers ==
    (last.op = "summarize" /\ last.fault = "none"
       /\ \A r \in Selected(last.args) : r.amount.t = "real")
    => C5_Summarize

\* C6: every backend failure inside add_expense, list_expenses or summarize
\* (store unreachable, database locked, NOT NULL violation, failed commit) is
\* returned as {status: "error", message}; no call raises; a failed call
\* leaves the database as it was.
C6_FailuresAreEnvelopes ==
    [][ (Completed("add_expense") \/ Completed("list_expenses")
           \/ Completed("summarize"))
        => /\ last'.result.status # "raised"
           /\ ( \/ last'.fault # "none"
                \/ (last'.op = "add_expense"
                      /\ ( \/ writer # NoProc
                           \/ last'.args.date.t = "null"
                           \/ last'.args.amount.t = "null"
                           \/ last'.args.category.t = "null" ))
                => last'.result.status = "error" )
           /\ (last'.result.status = "error"
                 => /\ last'.result.message.prefix # ""
                    /\ last'.result.message.exc # ""
                    /\ UNCHANGED <<schema, table, seq, writer, txn, pc,
                                   issued, sentinels>>) ]_vars

C6_Witness ==
    /\ last.op = "add_expense"
    /\ last.args.amount.t = "null"
    /\ last.result.status = "error"
    /\ table # {}

\* C7: the id of each successful add_expense is greater than every id
\* assigned before it, those of the write test's rows included; no two
\* stored records share an id; a stored record's id is never given to
\* another record.
C7_IdsIncrease ==
    [][ /\ (Completed("add_expense") /\ last'.result.status = "success")
           => /\ last'.result.id \notin issued
              /\ \A j \in issued \cup sentinels : j < last'.result.id
        /\ \A r \in table' : r \in table \/ r.id \notin issued
        /\ \A r1 \in table', r2 \in table' : r1.id = r2.id => r1 = r2 ]_vars

C7_Witness ==
    /\ last.op = "add_expense" /\ last.result.status = "success"
    /\ Cardinality(sentinels) = 2
    /\ \A j \in sentinels : j < last.result.id

\* C8: the amount of every stored record is a number, never a string.
C8_AmountsAreNumbers == \A r \in table : r.amount.t = "real"

\* C9: the categories read never raises; with the override file absent it
\* returns the ten defaults; with the file present but unreadable or
\* malformed it returns the defaults too; it returns the override content
\* only when the file exists and is well-formed.
C9_CategoriesFallback ==
    catLast.status # "none"
    => LET f        == catLast.file
           defaults == JsonCategories(DefaultCategories)
           bad      == \/ f.kind = "dir"
                       \/ (f.kind = "file"
                             /\ (~f.readable \/ ~f.utf8
                                   \/ f.content.form # "json"))
       IN  /\ catLast.status = "returned"
           /\ Len(DefaultCategories) = 10
           /\ (f.kind = "absent" => catLast.body = defaults)
           /\ (bad => catLast.body = defaults)
           /\ (catLast.body # defaults
                 => f.kind = "file" /\ ~bad /\ catLast.body = f.content)

\* C10: once every started run of init_db has finished, the table holds no
\* row written by the write test, however the runs and the add_expense calls
\* were interleaved.
C10_NoSentinelLeft ==
    (\A p \in Procs : ~InitRunning(p))
    => \A r \in table : r.id \notin sentinels

C10_Witness ==
    /\ \A p \in Procs : pc[p] = "serving"
    /\ Cardinality(sentinels) = 2
    /\ table # {}
    /\ last.op = "init_db"

=============================================================================
